---- MODULE Spec2Model ----
(***************************************************************************)
(* Model of src/template.py: a network inventory (Network -> Computer ->   *)
(* Address / CPU / Memory / Disk) with tree rendering (print_me) and deep  *)
(* copy (clone).                                                           *)
(*                                                                         *)
(* Python objects live in `heap`, a sequence indexed by object identity.   *)
(* A reference is an index into it.  Address objects are created only      *)
(* inside Computer.add_address and no operation hands one out or takes one *)
(* in, so they are held by value inside their Computer.  Partitions are    *)
(* tuples of immutable values and are held by value inside their Disk.     *)
(*                                                                         *)
(* Rendered text is a sequence of lines; a line records the three pieces   *)
(* the f-strings concatenate: the prefix (a sequence of the strings that   *)
(* were appended to it), the connector and the body.  LineText gives the   *)
(* string that reaches the stream.                                         *)
(*                                                                         *)
(* print_me ignores its no_slash and is_root arguments in every class, so  *)
(* the model does not carry them.  BasicCollection.items (with add and     *)
(* find) is neither rendered nor copied by Computer.clone and is left out. *)
(* The arguments of add_component and add_computer are any object of the   *)
(* documented class: Python checks nothing more, and neither does the      *)
(* code.                                                                   *)
(***************************************************************************)
EXTENDS Integers, Sequences, FiniteSets, TLC

VARIABLES
  heap,    \* the objects constructed so far, by reference
  ret,     \* the last call: its name, receiver, arguments and result
  clones,  \* history: the pairs <<n, x>> of the calls x = n.clone()
  adds     \* history: the number of add_* calls made

vars == <<heap, ret, clones, adds>>

(***************************************************************************)
(* Bounds of the model and the argument values the operations draw from.   *)
(***************************************************************************)
\* Constructors are called while the heap holds fewer objects than this.
MaxBuilt == 2
\* Calls of the add operations (add_address, add_component, add_partition,
\* add_computer).
MaxAdds == 3
\* Objects the heap has room for; clone needs the room for its copies.
MaxObjs == 4
\* Calls of clone that return a copy.
MaxClones == 1

NetNames == {"MISIS network"}
\* Names given to computers, and names looked up.
Names == {"a"}
Queries == {"a", "A"}
Addrs == {"10.0.0.1"}
CpuArgs == {<<4, 2500>>}
MemArgs == {16000}
DiskSizes == {2000}
PartArgs == {<<500, "system">>}
\* Prefixes a caller passes to print_me explicitly; str() passes the default.
Prefixes == {<<"| ">>}

\* Disk.SSD and Disk.MAGNETIC
SSD == 0
MAGNETIC == 1

\* The absence value returned by find_computer; references start at 1.
None == 0

(***************************************************************************)
(* Constructors                                                            *)
(***************************************************************************)
NetworkInit(name) == [kind |-> "Network", name |-> name, computers |-> <<>>]

ComputerInit(name) ==
  [kind |-> "Computer", name |-> name, addresses |-> <<>>, components |-> <<>>]

AddressInit(addr) == [kind |-> "Address", address |-> addr]

DiskInit(storage_type, size) ==
  [kind |-> "Disk", storage_type |-> storage_type, size |-> size,
   partitions |-> <<>>]

CPUInit(cores, mhz) == [kind |-> "CPU", cores |-> cores, mhz |-> mhz]

MemoryInit(size) == [kind |-> "Memory", size |-> size]

\* The classes that derive from Component (Computer does, through its bases).
ComponentKinds == {"Computer", "Disk", "CPU", "Memory"}

(***************************************************************************)
(* Heap helpers                                                            *)
(***************************************************************************)
Objs(h) == 1..Len(h)

OfKind(h, k) == {o \in Objs(h) : h[o].kind = k}

\* The references an object holds, in order.
ChildSeq(h, o) ==
  IF h[o].kind = "Network" THEN h[o].computers
  ELSE IF h[o].kind = "Computer" THEN h[o].components
  ELSE <<>>

Children(h, o) == {ChildSeq(h, o)[i] : i \in 1..Len(ChildSeq(h, o))}

RECURSIVE Closure(_, _, _)
Closure(h, S, n) ==
  IF n = 0 THEN S
  ELSE Closure(h, S \cup UNION {Children(h, o) : o \in S}, n - 1)

\* Objects reachable from o through the lists, o included.
Reach(h, o) == Closure(h, {o}, Len(h))

\* Objects reachable from o through at least one reference.
Below(h, o) == Closure(h, Children(h, o), Len(h))

\* A traversal started at o re-enters some node: the recursion has no end.
Cyclic(h, o) == \E m \in Reach(h, o) : m \in Below(h, m)

(***************************************************************************)
(* Rendering: print_me of each class                                       *)
(***************************************************************************)
Line(prefix, conn, body) == [prefix |-> prefix, conn |-> conn, body |-> body]

\* '\\-' if is_last else '+-'
Connector(is_last) == IF is_last THEN "\\-" ELSE "+-"

\* prefix + ("  " if is_last else "| ")
NewPrefix(prefix, is_last) == Append(prefix, IF is_last THEN "  " ELSE "| ")

Address_print_me(a, prefix, is_last) ==
  <<Line(prefix, Connector(is_last), a.address)>>

CPU_print_me(c, prefix, is_last) ==
  <<Line(prefix, Connector(is_last),
         "CPU, " \o ToString(c.cores) \o " cores @ " \o ToString(c.mhz)
           \o "MHz")>>

Memory_print_me(m, prefix, is_last) ==
  <<Line(prefix, Connector(is_last),
         "Memory, " \o ToString(m.size) \o " MiB")>>

\* Disk.print_me numbering the partitions from 1.
Disk_print_me_OneBased(d, prefix, is_last) ==
  LET disk_type == IF d.storage_type = SSD THEN "SSD" ELSE "HDD"
      new_prefix == NewPrefix(prefix, is_last)
      n == Len(d.partitions)
  IN <<Line(prefix, Connector(is_last),
            disk_type \o ", " \o ToString(d.size) \o " GiB")>>
     \o [i \in 1..n |->
          Line(new_prefix, Connector(i = n),
               "[" \o ToString(i) \o "]: " \o ToString(d.partitions[i][1])
                 \o " GiB, " \o d.partitions[i][2])]

Disk_print_me(d, prefix, is_last) ==
  LET disk_type == IF d.storage_type = SSD THEN "SSD" ELSE "HDD"
      new_prefix == NewPrefix(prefix, is_last)
      n == Len(d.partitions)
  IN <<Line(prefix, Connector(is_last),
            disk_type \o ", " \o ToString(d.size) \o " GiB")>>
     \o [i \in 1..n |->
          Line(new_prefix, Connector(i = n),
               "[" \o ToString(i - 1) \o "]: " \o ToString(d.partitions[i][1])
                 \o " GiB, " \o d.partitions[i][2])]

RECURSIVE AddressLines(_, _, _, _)
\* The loop over self.addresses, from position i on.
AddressLines(c, i, new_prefix, no_components) ==
  IF i > Len(c.addresses) THEN <<>>
  ELSE Address_print_me(c.addresses[i], new_prefix,
                        i = Len(c.addresses) /\ no_components)
       \o AddressLines(c, i + 1, new_prefix, no_components)

RECURSIVE print_me(_, _, _, _)
RECURSIVE PrintEach(_, _, _, _)

\* A loop "for i, x in enumerate(xs): x.print_me(os, prefix, i == len(xs) - 1)",
\* from position i on.
PrintEach(h, xs, i, prefix) ==
  IF i > Len(xs) THEN <<>>
  ELSE print_me(h, xs[i], prefix, i = Len(xs))
       \o PrintEach(h, xs, i + 1, prefix)

\* Computer.print_me marking the last address as last whatever follows it.
Computer_print_me_AddrLast(h, c, prefix, is_last) ==
  LET new_prefix == NewPrefix(prefix, is_last)
  IN <<Line(prefix, Connector(is_last), "Host: " \o c.name)>>
     \o AddressLines(c, 1, new_prefix, TRUE)
     \o PrintEach(h, c.components, 1, new_prefix)

Computer_print_me(h, c, prefix, is_last) ==
  LET new_prefix == NewPrefix(prefix, is_last)
  IN <<Line(prefix, Connector(is_last), "Host: " \o c.name)>>
     \o AddressLines(c, 1, new_prefix, c.components = <<>>)
     \o PrintEach(h, c.components, 1, new_prefix)

\* Network.print_me indenting its computers like any other parent.
Network_print_me_Indented(h, n, prefix, is_last) ==
  <<Line(<<>>, "", "Network: " \o n.name)>>
  \o PrintEach(h, n.computers, 1, NewPrefix(prefix, is_last))

Network_print_me(h, n, prefix, is_last) ==
  <<Line(<<>>, "", "Network: " \o n.name)>>
  \o PrintEach(h, n.computers, 1, prefix)

\* Dynamic dispatch of o.print_me(os, prefix, is_last); the lines written.
print_me(h, o, prefix, is_last) ==
  CASE h[o].kind = "Network" -> Network_print_me(h, h[o], prefix, is_last)
    [] h[o].kind = "Computer" -> Computer_print_me(h, h[o], prefix, is_last)
    [] h[o].kind = "Disk" -> Disk_print_me(h[o], prefix, is_last)
    [] h[o].kind = "CPU" -> CPU_print_me(h[o], prefix, is_last)
    [] h[o].kind = "Memory" -> Memory_print_me(h[o], prefix, is_last)

RECURSIVE Concat(_)
Concat(ss) == IF ss = <<>> THEN "" ELSE Head(ss) \o Concat(Tail(ss))

\* The characters one os.write puts on the stream.
LineText(l) == Concat(l.prefix) \o l.conn \o l.body \o "\n"

RECURSIVE Text(_)
\* The stream's content after the writes.
Text(lines) ==
  IF lines = <<>> THEN "" ELSE LineText(Head(lines)) \o Text(Tail(lines))

(***************************************************************************)
(* Lookup                                                                  *)
(***************************************************************************)
RECURSIVE FirstNamed(_, _, _, _)
\* next((comp for comp in computers if comp.name == name), None), from
\* position i on.
FirstNamed(h, computers, i, name) ==
  IF i > Len(computers) THEN None
  ELSE IF h[computers[i]].name = name THEN computers[i]
  ELSE FirstNamed(h, computers, i + 1, name)

RECURSIVE LastNamed(_, _, _, _)
LastNamed(h, computers, i, name) ==
  IF i = 0 THEN None
  ELSE IF h[computers[i]].name = name THEN computers[i]
  ELSE LastNamed(h, computers, i - 1, name)

\* find_computer scanning from the end.
find_computer_Last(h, n, name) ==
  LastNamed(h, h[n].computers, Len(h[n].computers), name)

find_computer(h, n, name) == FirstNamed(h, h[n].computers, 1, name)

(***************************************************************************)
(* Deep copy: clone of each class.  A clone yields the heap with the new   *)
(* objects on it and the reference to the copy.                            *)
(***************************************************************************)
Address_clone(a) == AddressInit(a.address)

CPU_clone(h, o) ==
  [h |-> Append(h, CPUInit(h[o].cores, h[o].mhz)), id |-> Len(h) + 1]

Memory_clone(h, o) ==
  [h |-> Append(h, MemoryInit(h[o].size)), id |-> Len(h) + 1]

\* Disk.clone leaving the partitions behind.
Disk_clone_NoPartitions(h, o) ==
  [h |-> Append(h, DiskInit(h[o].storage_type, h[o].size)),
   id |-> Len(h) + 1]

Disk_clone(h, o) ==
  LET new_disk == DiskInit(h[o].storage_type, h[o].size)
  IN [h |-> Append(h, [new_disk EXCEPT !.partitions = h[o].partitions]),
      id |-> Len(h) + 1]

RECURSIVE clone(_, _)
RECURSIVE CloneEach(_, _, _)

\* [x.clone() for x in xs], from position i on: the heap after the clones
\* and the list of the copies.
CloneEach(h, xs, i) ==
  IF i > Len(xs) THEN [h |-> h, ids |-> <<>>]
  ELSE LET first == clone(h, xs[i])
           rest == CloneEach(first.h, xs, i + 1)
       IN [h |-> rest.h, ids |-> <<first.id>> \o rest.ids]

Computer_clone(h, o) ==
  LET new_computer == Len(h) + 1
      h1 == Append(h, ComputerInit(h[o].name))
      addresses == [i \in 1..Len(h[o].addresses) |->
                     Address_clone(h[o].addresses[i])]
      comps == CloneEach(h1, h[o].components, 1)
  IN [h |-> [comps.h EXCEPT ![new_computer].addresses = addresses,
                            ![new_computer].components = comps.ids],
      id |-> new_computer]

Network_clone(h, o) ==
  LET new_network == Len(h) + 1
      h1 == Append(h, NetworkInit(h[o].name))
      comps == CloneEach(h1, h[o].computers, 1)
  IN [h |-> [comps.h EXCEPT ![new_network].computers = comps.ids],
      id |-> new_network]

\* Dynamic dispatch of o.clone().
clone(h, o) ==
  CASE h[o].kind = "Network" -> Network_clone(h, o)
    [] h[o].kind = "Computer" -> Computer_clone(h, o)
    [] h[o].kind = "Disk" -> Disk_clone(h, o)
    [] h[o].kind = "CPU" -> CPU_clone(h, o)
    [] h[o].kind = "Memory" -> Memory_clone(h, o)

(***************************************************************************)
(* State machine                                                           *)
(***************************************************************************)
Init ==
  /\ heap = <<>>
  /\ ret = [op |-> "start"]
  /\ clones = {}
  /\ adds = 0

Alloc(obj) ==
  /\ Len(heap) < MaxBuilt
  /\ heap' = Append(heap, obj)
  /\ ret' = [op |-> "new", val |-> Len(heap) + 1]
  /\ UNCHANGED <<clones, adds>>

NewNetwork == \E name \in NetNames : Alloc(NetworkInit(name))

NewComputer == \E name \in Names : Alloc(ComputerInit(name))

NewDisk ==
  \E t \in {SSD, MAGNETIC}, s \in DiskSizes : Alloc(DiskInit(t, s))

NewCPU == \E a \in CpuArgs : Alloc(CPUInit(a[1], a[2]))

NewMemory == \E s \in MemArgs : Alloc(MemoryInit(s))

add_address(self, addr) ==
  /\ self \in OfKind(heap, "Computer")
  /\ adds < MaxAdds
  /\ adds' = adds + 1
  /\ heap' = [heap EXCEPT ![self].addresses = Append(@, AddressInit(addr))]
  /\ ret' = [op |-> "add_address", self |-> self, arg |-> addr,
             val |-> self]
  /\ UNCHANGED clones

add_component(self, comp) ==
  /\ self \in OfKind(heap, "Computer")
  /\ heap[comp].kind \in ComponentKinds
  /\ adds < MaxAdds
  /\ adds' = adds + 1
  /\ heap' = [heap EXCEPT ![self].components = Append(@, comp)]
  /\ ret' = [op |-> "add_component", self |-> self, arg |-> comp,
             val |-> self]
  /\ UNCHANGED clones

add_partition(self, size, name) ==
  /\ self \in OfKind(heap, "Disk")
  /\ adds < MaxAdds
  /\ adds' = adds + 1
  /\ heap' = [heap EXCEPT ![self].partitions = Append(@, <<size, name>>)]
  /\ ret' = [op |-> "add_partition", self |-> self, val |-> self]
  /\ UNCHANGED clones

add_computer(self, comp) ==
  /\ self \in OfKind(heap, "Network")
  /\ comp \in OfKind(heap, "Computer")
  /\ adds < MaxAdds
  /\ adds' = adds + 1
  /\ heap' = [heap EXCEPT ![self].computers = Append(@, comp)]
  /\ ret' = [op |-> "add_computer", self |-> self, arg |-> comp,
             val |-> self]
  /\ UNCHANGED clones

AddAddress == \E c \in Objs(heap), a \in Addrs : add_address(c, a)

AddComponent == \E c \in Objs(heap), d \in Objs(heap) : add_component(c, d)

AddPartition ==
  \E d \in Objs(heap), p \in PartArgs : add_partition(d, p[1], p[2])

AddComputer == \E n \in Objs(heap), c \in Objs(heap) : add_computer(n, c)

\* find_computer handing out a copy of the computer it found.
FindComputerCopy ==
  \E n \in OfKind(heap, "Network"), name \in Queries :
    LET found == find_computer(heap, n, name)
    IN IF found = None \/ Cyclic(heap, found)
         THEN /\ ret' = [op |-> "find_computer", self |-> n, arg |-> name,
                         val |-> found]
              /\ UNCHANGED <<heap, clones, adds>>
         ELSE /\ Len(clone(heap, found).h) <= MaxObjs
              /\ heap' = clone(heap, found).h
              /\ ret' = [op |-> "find_computer", self |-> n, arg |-> name,
                         val |-> clone(heap, found).id]
              /\ UNCHANGED <<clones, adds>>

\* net.find_computer(name)
FindComputer ==
  \E n \in OfKind(heap, "Network"), name \in Queries :
    /\ ret' = [op |-> "find_computer", self |-> n, arg |-> name,
               val |-> find_computer(heap, n, name)]
    /\ UNCHANGED <<heap, clones, adds>>

\* print_me emptying the partition list of the Disk it renders.
PrintMeConsuming(o, prefix, is_last) ==
  /\ ret' = [op |-> "print_me", self |-> o, prefix |-> prefix,
             is_last |-> is_last, raised |-> Cyclic(heap, o),
             val |-> IF Cyclic(heap, o) THEN <<>>
                     ELSE print_me(heap, o, prefix, is_last)]
  /\ heap' = IF heap[o].kind = "Disk"
               THEN [heap EXCEPT ![o].partitions = <<>>]
               ELSE heap
  /\ UNCHANGED <<clones, adds>>

\* o.print_me(os, prefix, is_last) on a fresh stream; val is what was
\* written.  On a structure with a cycle the recursion has no end and the
\* call raises RecursionError.
PrintMe(o, prefix, is_last) ==
  /\ ret' = [op |-> "print_me", self |-> o, prefix |-> prefix,
             is_last |-> is_last, raised |-> Cyclic(heap, o),
             val |-> IF Cyclic(heap, o) THEN <<>>
                     ELSE print_me(heap, o, prefix, is_last)]
  /\ UNCHANGED <<heap, clones, adds>>

Render ==
  \E o \in Objs(heap), prefix \in Prefixes, is_last \in BOOLEAN :
    PrintMe(o, prefix, is_last)

\* str(o): print_me into a StringIO with the default arguments, then getvalue.
Str ==
  \E o \in Objs(heap) :
    /\ ret' = [op |-> "__str__", self |-> o, raised |-> Cyclic(heap, o),
               val |-> IF Cyclic(heap, o) THEN ""
                       ELSE Text(print_me(heap, o, <<>>, FALSE))]
    /\ UNCHANGED <<heap, clones, adds>>

\* x = o.clone()
Clone ==
  \E o \in Objs(heap) :
    IF Cyclic(heap, o)
      THEN /\ ret' = [op |-> "clone", self |-> o, raised |-> TRUE,
                      val |-> None]
           /\ UNCHANGED <<heap, clones, adds>>
      ELSE LET r == clone(heap, o)
           IN /\ Cardinality(clones) < MaxClones
              /\ Len(r.h) <= MaxObjs
              /\ heap' = r.h
              /\ ret' = [op |-> "clone", self |-> o, raised |-> FALSE,
                         val |-> r.id]
              /\ clones' = clones \cup {<<o, r.id>>}
              /\ UNCHANGED adds

Next ==
  \/ NewNetwork
  \/ NewComputer
  \/ NewDisk
  \/ NewCPU
  \/ NewMemory
  \/ AddAddress
  \/ AddComponent
  \/ AddPartition
  \/ AddComputer
  \/ FindComputer
  \/ Render
  \/ Str
  \/ Clone

Spec == Init /\ [][Next]_vars

(***************************************************************************)
(* Properties                                                              *)
(***************************************************************************)
\* Prefixes the properties quantify over.
ArgPrefixes == {<<>>, <<"| ">>, <<"  ", "| ">>}

Corner == "\\-"
Tee == "+-"

Networks == OfKind(heap, "Network")

\* C1: clone independence.  For every Network n and x = n.clone(), a call of
\* add_address, add_component or add_partition on a node reached through x
\* leaves every node reached through n as it was, and the same with x and n
\* swapped.
C1_CloneIndependence ==
  [][\A p \in clones :
       (/\ heap[p[1]].kind = "Network"
        /\ ret'.op \in {"add_address", "add_component", "add_partition"}
        /\ adds' = adds + 1)
       => /\ ret'.self \in Reach(heap, p[2])
               => \A m \in Reach(heap, p[1]) : heap'[m] = heap[m]
          /\ ret'.self \in Reach(heap, p[1])
               => \A m \in Reach(heap, p[2]) : heap'[m] = heap[m]]_vars

\* C2: clone fidelity.  Right after x = n.clone() returns, x renders to the
\* same lines, hence the same text, as n, for every prefix and is_last.
C2_CloneFidelity ==
  (ret.op = "clone" /\ ~ret.raised) =>
    \A prefix \in ArgPrefixes, is_last \in BOOLEAN :
      /\ print_me(heap, ret.val, prefix, is_last)
           = print_me(heap, ret.self, prefix, is_last)
      /\ Text(print_me(heap, ret.val, prefix, is_last))
           = Text(print_me(heap, ret.self, prefix, is_last))

\* A clone of a node that has child nodes and renders to three lines or more.
C2_Witness ==
  /\ ret.op = "clone"
  /\ ~ret.raised
  /\ Children(heap, ret.self) # {}
  /\ Len(print_me(heap, ret.val, <<>>, FALSE)) >= 3

\* The lines of out, after the heading, written at exactly the prefix p.
LinesAt(out, p) ==
  LET At(l) == l.prefix = p
  IN SelectSeq(Tail(out), At)

\* C3: combined last-child rule.  A rendered Computer writes its addresses
\* and then its components at one child prefix; an address has the corner
\* connector only if it is the last address and there are no components, a
\* component only if it is the final component, every other child has the
\* tee; a Computer with a child has exactly one corner among its child
\* lines, on the last of them.
C3_LastChildRule ==
  (ret.op = "print_me" /\ ~ret.raised /\ heap[ret.self].kind = "Computer") =>
    LET c == heap[ret.self]
        kids == LinesAt(ret.val,
                        Append(ret.prefix,
                               IF ret.is_last THEN "  " ELSE "| "))
        na == Len(c.addresses)
        nc == Len(c.components)
    IN /\ Len(kids) = na + nc
       /\ \A i \in 1..na :
            /\ kids[i].body = c.addresses[i].address
            /\ kids[i].conn = (IF i = na /\ nc = 0 THEN Corner ELSE Tee)
       /\ \A j \in 1..nc :
            kids[na + j].conn = (IF j = nc THEN Corner ELSE Tee)
       /\ (na >= 1 /\ nc >= 1) =>
            (kids[na].conn = Tee /\ kids[na + nc].conn = Corner)
       /\ (na + nc >= 1) =>
            {i \in 1..Len(kids) : kids[i].conn = Corner} = {Len(kids)}

\* A rendered Computer with an address and a component.
C3_Witness ==
  /\ ret.op = "print_me"
  /\ ~ret.raised
  /\ heap[ret.self].kind = "Computer"
  /\ Len(heap[ret.self].addresses) >= 1
  /\ Len(heap[ret.self].components) >= 1

\* The rendering out of Network n has the heading line, then one Computer
\* heading per computer, in order, at prefix p, the last with the corner
\* and the others with the tee; every line below a heading extends p with
\* "| " under a tee heading and with two spaces under the corner heading.
NetworkLines(h, n, p, out) ==
  LET cs == h[n].computers
      heads == LinesAt(out, p)
      HeadOf(k) == CHOOSE j \in 2..k :
                     /\ out[j].prefix = p
                     /\ \A m \in (j + 1)..k : out[m].prefix # p
  IN /\ out[1] = Line(<<>>, "", "Network: " \o h[n].name)
     /\ Len(heads) = Len(cs)
     /\ \A i \in 1..Len(cs) :
          /\ heads[i].body = "Host: " \o h[cs[i]].name
          /\ heads[i].conn = (IF i = Len(cs) THEN Corner ELSE Tee)
     /\ \A k \in 2..Len(out) :
          out[k].prefix # p =>
            /\ \E j \in 2..(k - 1) : out[j].prefix = p
            /\ Len(out[k].prefix) > Len(p)
            /\ SubSeq(out[k].prefix, 1, Len(p)) = p
            /\ out[k].prefix[Len(p) + 1]
                 = (IF out[HeadOf(k)].conn = Corner THEN "  " ELSE "| ")

\* The network built by main(), lines 197-217.
MainHeap ==
  <<[kind |-> "Network", name |-> "MISIS network", computers |-> <<2, 5>>],
    [kind |-> "Computer", name |-> "server1.misis.ru",
     addresses |-> <<AddressInit("192.168.1.1")>>, components |-> <<3, 4>>],
    CPUInit(4, 2500),
    MemoryInit(16000),
    [kind |-> "Computer", name |-> "server2.misis.ru",
     addresses |-> <<AddressInit("10.0.0.1")>>, components |-> <<6, 7>>],
    CPUInit(8, 3200),
    [kind |-> "Disk", storage_type |-> MAGNETIC, size |-> 2000,
     partitions |-> <<<<500, "system">>, <<1500, "data">>>>]>>

\* The text main() expects, lines 224-234, with the final line break.
expected_output ==
  "Network: MISIS network\n"
  \o "+-Host: server1.misis.ru\n"
  \o "| +-192.168.1.1\n"
  \o "| +-CPU, 4 cores @ 2500MHz\n"
  \o "| \\-Memory, 16000 MiB\n"
  \o "\\-Host: server2.misis.ru\n"
  \o "  +-10.0.0.1\n"
  \o "  +-CPU, 8 cores @ 3200MHz\n"
  \o "  \\-HDD, 2000 GiB\n"
  \o "    +-[0]: 500 GiB, system\n"
  \o "    \\-[1]: 1500 GiB, data\n"

\* C4 as stated: a rendered Network writes `Network: {name}` and then its
\* computers at prefix "", whatever prefix print_me was given.
C4_ComputersAtEmptyPrefix ==
  (ret.op = "print_me" /\ ~ret.raised /\ heap[ret.self].kind = "Network") =>
    NetworkLines(heap, ret.self, <<>>, ret.val)

\* C4 as amended: a rendered Network writes `Network: {name}` with no prefix
\* and no connector and then its computers, in order, at the prefix that
\* print_me was given, which is "" for str(network); the last computer has
\* the corner and two spaces below it, the others the tee and "| ".  The
\* network of main() renders to the text its test expects.
C4_NetworkRendering ==
  /\ (ret.op = "print_me" /\ ~ret.raised /\ heap[ret.self].kind = "Network")
       => NetworkLines(heap, ret.self, ret.prefix, ret.val)
  /\ (ret.op = "__str__" /\ ~ret.raised /\ heap[ret.self].kind = "Network")
       => LET out == print_me(heap, ret.self, <<>>, FALSE)
          IN NetworkLines(heap, ret.self, <<>>, out) /\ ret.val = Text(out)
  /\ ret.op = "start" =>
       Text(print_me(MainHeap, 1, <<>>, FALSE)) = expected_output

\* A rendered Network of two computers or more whose first and last
\* computer both have children.
C4_Witness ==
  /\ ret.op = "print_me"
  /\ ~ret.raised
  /\ heap[ret.self].kind = "Network"
  /\ LET cs == heap[ret.self].computers
         Kids(c) == Len(heap[c].addresses) + Len(heap[c].components)
     IN /\ Len(cs) >= 2
        /\ Kids(cs[1]) >= 1
        /\ Kids(cs[Len(cs)]) >= 1

C6_LiveReference ==
  [][(/\ ret.op = "find_computer"
      /\ ret.val # None
      /\ ret'.op \in {"add_component", "add_address"}
      /\ adds' = adds + 1
      /\ ret'.self = ret.val)
     => LET n == ret.self
            c == find_computer(heap', n, ret.arg)
        IN /\ c = ret.val
           /\ IF ret'.op = "add_component"
                THEN /\ heap'[c].components
                          = Append(heap[c].components, ret'.arg)
                     /\ heap'[c].addresses = heap[c].addresses
                ELSE /\ heap'[c].addresses
                          = Append(heap[c].addresses, AddressInit(ret'.arg))
                     /\ heap'[c].components = heap[c].components
           /\ ~Cyclic(heap', n) =>
                LET out == print_me(heap', n, <<>>, FALSE)
                    shown == IF ret'.op = "add_component"
                               THEN print_me(heap', ret'.arg, <<>>, FALSE)[1].body
                               ELSE ret'.arg
                IN /\ Len(out) > Len(print_me(heap, n, <<>>, FALSE))
                   /\ \E k \in 1..Len(out) : out[k].body = shown]_vars

\* A component or an address was added to a computer that a network's
\* find_computer returns.
C6_Witness ==
  /\ ret.op \in {"add_component", "add_address"}
  /\ \E n \in Networks, name \in Queries :
       find_computer(heap, n, name) = ret.self

\* C7: idempotent rendering.  print_me and str change no field and no list
\* of any node, and a second rendering with the same arguments yields what
\* the first did.
C7_RenderReadOnly ==
  [][ret'.op \in {"print_me", "__str__"} =>
       /\ heap' = heap
       /\ (/\ ret.op = ret'.op
           /\ ret.self = ret'.self
           /\ ret.op = "print_me" =>
                (ret.prefix = ret'.prefix /\ ret.is_last = ret'.is_last))
          => (ret'.val = ret.val /\ ret'.raised = ret.raised)]_vars

\* A rendering of three lines or more.
C7_Witness ==
  /\ ret.op = "print_me"
  /\ ~ret.raised
  /\ Len(ret.val) >= 3

\* C8: Disk rendering.  A Disk rendered with prefix p and is_last writes the
\* heading `{p}{connector}{SSD|HDD}, {size} GiB` and then one line per
\* partition, in order, at p extended by two spaces if is_last and by "| "
\* otherwise, with the zero-based position in brackets, the corner on the
\* last partition and the tee on the others.
C8_DiskRendering ==
  (ret.op = "print_me" /\ heap[ret.self].kind = "Disk") =>
    LET d == heap[ret.self]
        out == ret.val
        n == Len(d.partitions)
    IN /\ ~ret.raised
       /\ Len(out) = 1 + n
       /\ out[1].prefix = ret.prefix
       /\ out[1].conn = (IF ret.is_last THEN Corner ELSE Tee)
       /\ out[1].body = (IF d.storage_type = SSD THEN "SSD"
                         ELSE IF d.storage_type = MAGNETIC THEN "HDD"
                         ELSE "?")
                        \o ", " \o ToString(d.size) \o " GiB"
       /\ \A i \in 1..n :
            /\ out[i + 1].prefix
                 = ret.prefix \o (IF ret.is_last THEN <<"  ">> ELSE <<"| ">>)
            /\ out[i + 1].conn = (IF i = n THEN Corner ELSE Tee)
            /\ out[i + 1].body
                 = "[" \o ToString(i - 1) \o "]: "
                   \o ToString(d.partitions[i][1]) \o " GiB, "
                   \o d.partitions[i][2]

\* A rendered Disk of two partitions or more.
C8_Witness ==
  /\ ret.op = "print_me"
  /\ heap[ret.self].kind = "Disk"
  /\ Len(heap[ret.self].partitions) >= 2

\* How many times o stands in the lists named by field of the nodes of
\* kind k.
Occurrences(o, k, field) ==
  Cardinality({s \in UNION {{<<w, i>> : i \in 1..Len(heap[w][field])} :
                              w \in OfKind(heap, k)} :
                 heap[s[1]][field][s[2]] = o})

\* C9: exclusive ownership.  No Computer stands in the computer sequence of
\* two Networks or twice in one, and no component stands in the component
\* sequence of two Computers or twice in one.
C9_ExclusiveOwnership ==
  \A o \in Objs(heap) :
    /\ Occurrences(o, "Network", "computers") <= 1
    /\ Occurrences(o, "Computer", "components") <= 1

\* C10: acyclicity and termination.  No node is reachable from itself, and
\* print_me, str and clone return.
C10_Acyclic ==
  /\ \A o \in Objs(heap) : o \notin Below(heap, o)
  /\ ret.op \in {"print_me", "__str__", "clone"} => ~ret.raised

====
